---- MODULE Spec2Model ----
(***************************************************************************)
(* The Hero banner component of website/src/components/hero/index.js.      *)
(*                                                                         *)
(* Hero is a function from a props object to a React element.  The model   *)
(* keeps JavaScript values as tagged records, strings as sequences of      *)
(* symbols (one symbol per character of caller-supplied text; a word of a  *)
(* source literal is one symbol, since nothing in the component splits     *)
(* inside a literal), the returned element as a tree, and the markup that  *)
(* React puts on the page for that element as a second tree.               *)
(***************************************************************************)
EXTENDS Naturals, Sequences, FiniteSets, TLC

VARIABLES props, out, markup, history

vars == <<props, out, markup, history>>

(***************************************************************************)
(* Bounds of the model.                                                    *)
(***************************************************************************)
MaxTextLen == 1
MaxClassLen == 4
MaxCalls == 2

(***************************************************************************)
(* JavaScript values.                                                      *)
(***************************************************************************)
Undefined == [t |-> "undefined"]
Null == [t |-> "null"]
Bool(b) == [t |-> "boolean", v |-> b]
Str(s) == [t |-> "string", v |-> s]
Obj(m) == [t |-> "object", v |-> m]

\* ToBoolean of the language: what `&&` and `?:` test.
ToBoolean(x) ==
  CASE x.t = "undefined" -> FALSE
    [] x.t = "null" -> FALSE
    [] x.t = "boolean" -> x.v
    [] x.t = "string" -> x.v # <<>>
    [] OTHER -> TRUE

\* a && b
LogicalAnd(a, b) == IF ToBoolean(a) THEN b ELSE a

\* c ? a : b
Conditional(c, a, b) == IF ToBoolean(c) THEN a ELSE b

\* ${x} inside a template literal.
JSToString(x) ==
  CASE x.t = "undefined" -> <<"undefined">>
    [] x.t = "null" -> <<"null">>
    [] x.t = "boolean" -> IF x.v THEN <<"true">> ELSE <<"false">>
    [] x.t = "string" -> x.v
    [] OTHER -> <<"[object Object]">>

\* A destructured parameter with a default: the default replaces undefined only.
Default(x, d) == IF x = Undefined THEN d ELSE x

\* A JSX element: its type, its attributes and its children.
NoProps ==
  [className |-> Undefined, style |-> Undefined, src |-> Undefined,
   width |-> Undefined, height |-> Undefined]

Element(type, attrs, children) ==
  [t |-> "element", type |-> type, props |-> attrs, children |-> children]

\* The class names exported by ./styles.module.css.
styles == [Hero |-> Str(<<"Hero">>), showGraphic |-> Str(<<"showGraphic">>)]

(***************************************************************************)
(* The component.                                                          *)
(***************************************************************************)

\* A variant of the parameter list: showGraphic defaults to true.
HeroParamsGraphicOn(p) ==
  [heading |-> p.heading,
   subheading |-> p.subheading,
   showGraphic |-> Default(p.showGraphic, Bool(TRUE)),
   customStyles |-> Default(p.customStyles, Obj(<<>>)),
   classNames |-> Default(p.classNames, Str(<<>>))]

\* { heading, subheading, showGraphic = false, customStyles = {}, classNames = '' }
HeroParams(p) ==
  [heading |-> p.heading,
   subheading |-> p.subheading,
   showGraphic |-> Default(p.showGraphic, Bool(FALSE)),
   customStyles |-> Default(p.customStyles, Obj(<<>>)),
   classNames |-> Default(p.classNames, Str(<<>>))]

\* A variant of the class attribute: no space before the caller's class names.
HeaderClassNameUnseparated(classNames) ==
  Str(<<" ">> \o JSToString(styles.Hero) \o <<" ", "container-fluid">>
      \o JSToString(Conditional(classNames, classNames, Str(<<>>))))

\* A variant of the class attribute: classNames interpolated without the test.
HeaderClassNameUnguarded(classNames) ==
  Str(<<" ">> \o JSToString(styles.Hero) \o <<" ", "container-fluid", " ">>
      \o JSToString(classNames))

\* ` ${styles.Hero} container-fluid ${classNames ? classNames : ''}`
HeaderClassName(classNames) ==
  Str(<<" ">> \o JSToString(styles.Hero) \o <<" ", "container-fluid", " ">>
      \o JSToString(Conditional(classNames, classNames, Str(<<>>))))

\* A variant of the style attribute: the caller's styles are not passed on.
HeaderStyleDropped(customStyles) == LogicalAnd(customStyles, Obj(<<>>))

\* style={customStyles && customStyles}
HeaderStyle(customStyles) == LogicalAnd(customStyles, customStyles)

\* A variant of the graphic: rendered without the test of showGraphic.
GraphicChildAlways(showGraphic) ==
  Element("div", [NoProps EXCEPT !.className = styles.showGraphic], <<>>)

\* {showGraphic && (<div className={styles.showGraphic}></div>)}
GraphicChild(showGraphic) ==
  LogicalAnd(showGraphic,
             Element("div", [NoProps EXCEPT !.className = styles.showGraphic], <<>>))

\* <img src="/_vercel/image?url=%2Ftest.png&w=1000&q=75" width="500" height="375" />
ImgSrc == <<"/_vercel/image?url=%2Ftest.png&w=1000&q=75">>
ImgWidth == <<"500">>
ImgHeight == <<"375">>

Img ==
  Element("img",
          [NoProps EXCEPT !.src = Str(ImgSrc), !.width = Str(ImgWidth),
                          !.height = Str(ImgHeight)],
          <<>>)

\* A variant of the content: heading and subheading in each other's element.
ContentBlockSwapped(heading, subheading) ==
  Element("div", [NoProps EXCEPT !.className = Str(<<"container">>)],
    << Element("div",
         [NoProps EXCEPT !.className = Str(<<"row", " ", "justify-content-center">>)],
         << Element("div", [NoProps EXCEPT !.className = Str(<<"col", " ", "col--7">>)],
              << Element("h1", NoProps, <<subheading>>),
                 Element("p", NoProps, <<heading>>),
                 Img >>) >>) >>)

\* A variant of the content: the image source is taken from the heading.
ContentBlockImageFromConfig(heading, subheading) ==
  Element("div", [NoProps EXCEPT !.className = Str(<<"container">>)],
    << Element("div",
         [NoProps EXCEPT !.className = Str(<<"row", " ", "justify-content-center">>)],
         << Element("div", [NoProps EXCEPT !.className = Str(<<"col", " ", "col--7">>)],
              << Element("h1", NoProps, <<heading>>),
                 Element("p", NoProps, <<subheading>>),
                 Element("img",
                         [NoProps EXCEPT !.src = heading, !.width = Str(ImgWidth),
                                         !.height = Str(ImgHeight)],
                         <<>>) >>) >>) >>)

\* <div className={`container`}> ... <h1>{heading}</h1> <p>{subheading}</p> <img/> ...
ContentBlock(heading, subheading) ==
  Element("div", [NoProps EXCEPT !.className = Str(<<"container">>)],
    << Element("div",
         [NoProps EXCEPT !.className = Str(<<"row", " ", "justify-content-center">>)],
         << Element("div", [NoProps EXCEPT !.className = Str(<<"col", " ", "col--7">>)],
              << Element("h1", NoProps, <<heading>>),
                 Element("p", NoProps, <<subheading>>),
                 Img >>) >>) >>)

\* A variant of the returned expression: the graphic after the content.
HeroElementGraphicLast(heading, subheading, showGraphic, customStyles, classNames) ==
  Element("header",
          [NoProps EXCEPT !.className = HeaderClassName(classNames),
                          !.style = HeaderStyle(customStyles)],
          << ContentBlock(heading, subheading), GraphicChild(showGraphic) >>)

\* The JSX expression that Hero returns.
HeroElement(heading, subheading, showGraphic, customStyles, classNames) ==
  Element("header",
          [NoProps EXCEPT !.className = HeaderClassName(classNames),
                          !.style = HeaderStyle(customStyles)],
          << GraphicChild(showGraphic), ContentBlock(heading, subheading) >>)

\* A variant of Hero: a heading or subheading that is missing is rejected.
HeroValidating(p) ==
  IF p.t # "object" \/ p.v.heading = Undefined \/ p.v.subheading = Undefined
    THEN [type |-> "throw", value |-> Str(<<"TypeError">>)]
    ELSE LET a == HeroParams(p.v)
         IN [type |-> "normal",
             value |-> HeroElement(a.heading, a.subheading, a.showGraphic,
                                   a.customStyles, a.classNames)]

\* A variant of Hero: a flag shared by the calls lets only the first call of a
\* pass render the graphic.
HeroGraphicOnce(p) ==
  IF p.t # "object"
    THEN [type |-> "throw", value |-> Str(<<"TypeError">>)]
    ELSE LET a == HeroParams(p.v)
         IN [type |-> "normal",
             value |-> HeroElement(a.heading, a.subheading,
                                   IF history = <<>> THEN a.showGraphic ELSE Bool(FALSE),
                                   a.customStyles, a.classNames)]

\* function Hero(props): a completion, normal with the element or abrupt.
\* Destructuring a parameter that is undefined or null throws a TypeError.
Hero(p) ==
  IF p.t # "object"
    THEN [type |-> "throw", value |-> Str(<<"TypeError">>)]
    ELSE LET a == HeroParams(p.v)
         IN [type |-> "normal",
             value |-> HeroElement(a.heading, a.subheading, a.showGraphic,
                                   a.customStyles, a.classNames)]

(***************************************************************************)
(* The markup React puts on the page for an element.  A node of the markup *)
(* is an element node (tag, attributes, inline style declarations,         *)
(* children) or a text node.                                               *)
(***************************************************************************)

\* Style names are camelCase in the style object and hyphenated in the markup.
Hyphenated(sym) ==
  CASE sym = "Color" -> <<"-", "color">>
    [] OTHER -> <<sym>>

RECURSIVE HyphenateStyleName(_)
HyphenateStyleName(name) ==
  IF name = <<>> THEN <<>>
  ELSE Hyphenated(Head(name)) \o HyphenateStyleName(Tail(name))

\* The declarations of a style attribute: none for a style that is no object.
StyleDeclarations(style) ==
  IF style.t = "object"
    THEN {<<HyphenateStyleName(k), style.v[k].v>> : k \in DOMAIN style.v}
    ELSE {}

\* The attributes of an element node: className becomes class.
AttrNames(p) ==
  {n \in {"className", "src", "width", "height"} : p[n].t = "string"}

DomName(n) == IF n = "className" THEN "class" ELSE n

Attributes(p) ==
  [a \in {DomName(n) : n \in AttrNames(p)} |->
     LET n == CHOOSE m \in AttrNames(p) : DomName(m) = a IN p[n].v]

TextNode(s) ==
  [tag |-> "#text", attrs |-> <<>>, style |-> {}, text |-> s, children |-> <<>>]

\* A child renders to no node (undefined, null, a boolean, the empty string),
\* to a text node (a string) or to an element node (an element); the children
\* of an element render in their order.
RECURSIVE RenderChild(_), RenderChildren(_)
RenderChild(c) ==
  CASE c.t = "string" -> IF c.v = <<>> THEN <<>> ELSE <<TextNode(c.v)>>
    [] c.t = "element" ->
         << [tag |-> c.type,
             attrs |-> Attributes(c.props),
             style |-> StyleDeclarations(c.props.style),
             text |-> <<>>,
             children |-> RenderChildren(c.children)] >>
    [] OTHER -> <<>>

RenderChildren(cs) ==
  IF cs = <<>> THEN <<>>
  ELSE RenderChild(Head(cs)) \o RenderChildren(Tail(cs))

\* The markup of a completion: the root node, or the failure it reports.
NoCall == [t |-> "none"]

ReactRender(completion) ==
  IF completion.type = "normal"
    THEN [t |-> "markup", root |-> RenderChild(completion.value)[1]]
    ELSE [t |-> "error", root |-> TextNode(<<>>)]

(***************************************************************************)
(* The configurations a caller passes.                                     *)
(***************************************************************************)
RECURSIVE SeqsUpTo(_, _)
SeqsUpTo(S, n) ==
  IF n = 0 THEN {<<>>}
  ELSE LET shorter == SeqsUpTo(S, n - 1)
       IN shorter \cup {Append(s, x) : s \in shorter, x \in S}

\* An optional field is omitted (undefined) or passed as null.
Absent == {Undefined, Null}

TextChars == {"a", "b"}
Texts == {Str(s) : s \in SeqsUpTo(TextChars, MaxTextLen)}

ClassChars == {"a", " "}
ClassTexts == {Str(s) : s \in SeqsUpTo(ClassChars, MaxClassLen)}

StyleNames == {<<"color">>, <<"background", "Color">>}
StyleValues == {Str(<<"red">>)}
StyleObjects ==
  {Obj(m) : m \in UNION {[D -> StyleValues] : D \in SUBSET StyleNames}}

HeroBannerConfig ==
  {Obj(c) : c \in [heading : Texts \cup {Undefined},
                   subheading : Texts \cup {Undefined},
                   showGraphic : {Bool(TRUE), Bool(FALSE)} \cup Absent,
                   customStyles : StyleObjects \cup Absent,
                   classNames : ClassTexts \cup Absent]}

(***************************************************************************)
(* The state machine.  A render call is made with a configuration (props); *)
(* Hero returns its completion (out) and React puts the markup of the      *)
(* returned element on the page (markup).                                  *)
(***************************************************************************)
Init ==
  /\ props \in HeroBannerConfig
  /\ out = NoCall
  /\ markup = NoCall
  /\ history = <<>>

Call ==
  /\ out = NoCall
  /\ out' = Hero(props)
  /\ UNCHANGED <<props, markup, history>>

Commit ==
  /\ out # NoCall
  /\ markup = NoCall
  /\ markup' = ReactRender(out)
  /\ UNCHANGED <<props, out, history>>

Next == Call \/ Commit

Spec == Init /\ [][Next]_vars

(***************************************************************************)
(* Several render calls, as in a server-side pass over many pages: each    *)
(* call runs Hero to completion and its markup is committed later, in any  *)
(* order.  history keeps every call with its configuration and results.    *)
(***************************************************************************)
SampleConfigs ==
  {Obj(c) : c \in [heading : {Str(<<"a">>), Undefined},
                   subheading : {Str(<<"b">>)},
                   showGraphic : {Bool(TRUE), Undefined},
                   customStyles : {Obj(<<"color">> :> Str(<<"red">>)), Undefined},
                   classNames : {Str(<<"a">>), Undefined}]}

InitCalls ==
  /\ props = NoCall
  /\ out = NoCall
  /\ markup = NoCall
  /\ history = <<>>

StartCall(p) ==
  /\ Len(history) < MaxCalls
  /\ history' = Append(history, [props |-> p, out |-> Hero(p), markup |-> NoCall])
  /\ UNCHANGED <<props, out, markup>>

CommitCall(i) ==
  /\ history[i].markup = NoCall
  /\ history' = [history EXCEPT ![i].markup = ReactRender(history[i].out)]
  /\ UNCHANGED <<props, out, markup>>

NextCalls ==
  \/ \E p \in SampleConfigs : StartCall(p)
  \/ \E i \in DOMAIN history : CommitCall(i)

SpecCalls == InitCalls /\ [][NextCalls]_vars

(***************************************************************************)
(* Reading the markup.                                                     *)
(***************************************************************************)

\* The nodes of a tree in document order.
RECURSIVE Preorder(_), PreorderAll(_)
Preorder(n) == <<n>> \o PreorderAll(n.children)

PreorderAll(ns) ==
  IF ns = <<>> THEN <<>> ELSE Preorder(Head(ns)) \o PreorderAll(Tail(ns))

ByTag(root, tag) == SelectSeq(Preorder(root), LAMBDA n : n.tag = tag)

\* The text inside a node: the text of its text nodes, in document order.
TextContent(n) ==
  LET all == Preorder(n)
      Cat[i \in 0..Len(all)] == IF i = 0 THEN <<>> ELSE Cat[i - 1] \o all[i].text
  IN Cat[Len(all)]

\* The class names of a string: its maximal runs of symbols other than space.
Tokens(s) ==
  LET Run[i \in 0..Len(s)] ==
        IF i = 0 \/ s[i] = " " THEN <<>> ELSE Append(Run[i - 1], s[i])
  IN {Run[i] : i \in {j \in 1..Len(s) :
                        /\ s[j] # " "
                        /\ (j = Len(s) \/ s[j + 1] = " ")}}

ClassList(n) == IF "class" \in DOMAIN n.attrs THEN Tokens(n.attrs["class"]) ELSE {}

\* The decorative graphic elements: the div elements of class styles.showGraphic.
IsGraphic(n) == n.tag = "div" /\ styles.showGraphic.v \in ClassList(n)

Graphics(root) == SelectSeq(Preorder(root), IsGraphic)

\* The element nodes in document order, the graphic element named apart.
Outline(root) ==
  LET all == Preorder(root)
      Lab[i \in 0..Len(all)] ==
        IF i = 0 THEN <<>>
        ELSE IF all[i].tag = "#text" THEN Lab[i - 1]
        ELSE Append(Lab[i - 1], IF IsGraphic(all[i]) THEN "graphic" ELSE all[i].tag)
  IN Lab[Len(all)]

Rendered == markup # NoCall /\ markup.t = "markup"
config == props.v

(***************************************************************************)
(* Properties of one render call (specification Spec).                     *)
(***************************************************************************)

\* C1: for every heading and subheading text and every value of the optional
\* fields, the markup has exactly one h1 element, whose content is the heading
\* unchanged, and exactly one p element, whose content is the subheading
\* unchanged.
C1_HeadingAndSubheadingVerbatim ==
  (Rendered /\ config.heading.t = "string" /\ config.subheading.t = "string") =>
    LET h == ByTag(markup.root, "h1")
        q == ByTag(markup.root, "p")
    IN /\ Len(h) = 1
       /\ TextContent(h[1]) = config.heading.v
       /\ Len(q) = 1
       /\ TextContent(q[1]) = config.subheading.v

C1_Witness ==
  /\ Rendered
  /\ config.heading = Str(<<"a">>)
  /\ config.subheading = Str(<<"b">>)
  /\ config.showGraphic = Bool(TRUE)
  /\ TextContent(ByTag(markup.root, "h1")[1]) = <<"a">>
  /\ TextContent(ByTag(markup.root, "p")[1]) = <<"b">>

\* C2: with showGraphic false or omitted the markup has no decorative graphic
\* element; with showGraphic true it has exactly one, and that one has no
\* children.
C2_GraphicOnlyWhenShown ==
  Rendered =>
    LET g == Graphics(markup.root)
    IN /\ config.showGraphic \in {Bool(FALSE), Undefined} => Len(g) = 0
       /\ config.showGraphic = Bool(TRUE) => (Len(g) = 1 /\ g[1].children = <<>>)

C2_Witness ==
  /\ Rendered
  /\ config.showGraphic = Bool(TRUE)
  /\ Len(Graphics(markup.root)) = 1
  /\ Graphics(markup.root)[1].children = <<>>

\* C3: the class list of the header contains the base class styles.Hero,
\* whether classNames is given, empty or omitted, and every space-separated
\* class name of a classNames string.
C3_HeaderClassList ==
  Rendered =>
    /\ markup.root.tag = "header"
    /\ styles.Hero.v \in ClassList(markup.root)
    /\ config.classNames.t = "string" =>
         Tokens(config.classNames.v) \subseteq ClassList(markup.root)

C3_Witness ==
  /\ Rendered
  /\ config.classNames = Str(<<"a", " ", "a", "a">>)
  /\ {<<"a">>, <<"a", "a">>, styles.Hero.v} \subseteq ClassList(markup.root)

\* C4: every property/value pair of customStyles is a declaration of the inline
\* style of the header, and no other element of the markup has an inline style.
C4_StylesOnHeaderOnly ==
  Rendered =>
    LET all == Preorder(markup.root)
    IN /\ config.customStyles.t = "object" =>
            \A k \in DOMAIN config.customStyles.v :
              <<HyphenateStyleName(k), config.customStyles.v[k].v>>
                \in markup.root.style
       /\ \A i \in 2..Len(all) : all[i].style = {}

C4_Witness ==
  /\ Rendered
  /\ config.customStyles.t = "object"
  /\ DOMAIN config.customStyles.v = StyleNames
  /\ <<<<"background", "-", "color">>, <<"red">>>> \in markup.root.style
  /\ Cardinality(markup.root.style) = 2

\* The configuration with the documented defaults passed explicitly.
ExplicitDefaults(p) ==
  Obj([p.v EXCEPT !.showGraphic = Bool(FALSE),
                  !.customStyles = Obj(<<>>),
                  !.classNames = Str(<<>>)])

\* C5: a call with showGraphic, customStyles and classNames all omitted gives
\* the output of the call that passes false, the empty mapping and the empty
\* string explicitly, for every heading and subheading.
C5_OmittedEqualsExplicitDefaults ==
  (/\ out # NoCall
   /\ config.showGraphic = Undefined
   /\ config.customStyles = Undefined
   /\ config.classNames = Undefined) =>
    /\ out = Hero(ExplicitDefaults(props))
    /\ markup # NoCall => markup = ReactRender(Hero(ExplicitDefaults(props)))

C5_Witness ==
  /\ Rendered
  /\ config.heading = Str(<<"a">>)
  /\ config.showGraphic = Undefined
  /\ config.customStyles = Undefined
  /\ config.classNames = Undefined
  /\ markup.root.attrs["class"] = <<" ", "Hero", " ", "container-fluid", " ">>

\* C7: the markup has exactly one img element, and its src, width and height
\* are the same fixed values for every configuration.
C7_FixedImage ==
  Rendered =>
    LET imgs == ByTag(markup.root, "img")
    IN /\ Len(imgs) = 1
       /\ imgs[1].attrs = [src |-> <<"/_vercel/image?url=%2Ftest.png&w=1000&q=75">>,
                           width |-> <<"500">>,
                           height |-> <<"375">>]

C7_Witness ==
  /\ Rendered
  /\ config.heading = Str(<<"b">>)
  /\ config.showGraphic = Bool(TRUE)
  /\ config.customStyles.t = "object"
  /\ config.classNames.t = "string"
  /\ Len(ByTag(markup.root, "img")) = 1
  /\ ByTag(markup.root, "img")[1].attrs["width"] = <<"500">>

\* C8: the markup is one header whose elements are, in document order, the
\* graphic element (only when showGraphic is true), the blocks of the content,
\* the heading, the paragraph and the image.
C8_DocumentOrder ==
  Rendered =>
    Outline(markup.root) =
      IF config.showGraphic = Bool(TRUE)
        THEN <<"header", "graphic", "div", "div", "div", "h1", "p", "img">>
        ELSE <<"header", "div", "div", "div", "h1", "p", "img">>

C8_Witness ==
  /\ Rendered
  /\ config.showGraphic = Bool(TRUE)
  /\ Outline(markup.root)[2] = "graphic"
  /\ Outline(markup.root)[6] = "h1"

\* C9: Hero reports no failure for any configuration; with heading or
\* subheading missing the markup is still complete (header, h1, p, img), the
\* h1 or p element having empty text.
C9_NoFailureOnMissingText ==
  /\ out # NoCall => out.type = "normal"
  /\ markup # NoCall =>
       /\ markup.t = "markup"
       /\ \A tag \in {"header", "h1", "p", "img"} : Len(ByTag(markup.root, tag)) = 1
       /\ config.heading = Undefined =>
            TextContent(ByTag(markup.root, "h1")[1]) = <<>>
       /\ config.subheading = Undefined =>
            TextContent(ByTag(markup.root, "p")[1]) = <<>>

C9_Witness ==
  /\ markup # NoCall
  /\ config.heading = Undefined
  /\ config.subheading = Undefined
  /\ out.type = "normal"
  /\ Len(ByTag(markup.root, "h1")) = 1
  /\ ByTag(markup.root, "h1")[1].children = <<>>

\* The configuration with every optional field that is null left out.
Omit(x) == IF x = Null THEN Undefined ELSE x

NullsOmitted(p) ==
  Obj([p.v EXCEPT !.showGraphic = Omit(@),
                  !.customStyles = Omit(@),
                  !.classNames = Omit(@)])

\* C10: null passed for showGraphic, customStyles or classNames gives the
\* markup of the call that omits the field: a null classNames adds no class
\* name (not the text null), a null customStyles no inline style, a null
\* showGraphic no graphic element.
C10_NullAsOmitted ==
  (Rendered /\ props # NullsOmitted(props)) =>
    /\ markup = ReactRender(Hero(NullsOmitted(props)))
    /\ config.classNames = Null =>
         ClassList(markup.root) = {styles.Hero.v, <<"container-fluid">>}
    /\ config.customStyles = Null => markup.root.style = {}
    /\ config.showGraphic = Null => Len(Graphics(markup.root)) = 0

C10_Witness ==
  /\ Rendered
  /\ config.showGraphic = Null
  /\ config.customStyles = Null
  /\ config.classNames = Null
  /\ <<"null">> \notin ClassList(markup.root)
  /\ props # NullsOmitted(props)

(***************************************************************************)
(* Properties of several render calls (specification SpecCalls).           *)
(***************************************************************************)

====
